---- MODULE Spec2Model ----
(***************************************************************************)
(* The Canvas OAuth bridge worker (src/src/index.js) as a state machine.   *)
(*                                                                         *)
(* Text is modelled as a sequence of units.  A unit is one punctuation    *)
(* character ("&", "?", "%", ...) or an atomic run of letters/digits      *)
(* ("x", "amp", "code", a hex digit).  Origin is the unit that stands for *)
(* an absolute URL prefix with no query and no fragment.  Every conversion *)
(* of the worker and of its peers (HTML escaping and entity decoding,      *)
(* percent encoding and the urlencoded parser, JSON string escaping, URL   *)
(* serialisation) is computed unit by unit.                                *)
(***************************************************************************)
EXTENDS Naturals, Sequences, FiniteSets, TLC

VARIABLES request, response, outbound, upstream, sent, flow, inflight

vars == <<request, response, outbound, upstream, sent, flow, inflight>>

----------------------------------------------------------------------------
(* Bounds of the model *)

MaxLen == 3
MaxFlowLen == 2
MaxInflight == 2

----------------------------------------------------------------------------
(* Values *)

\* JavaScript null/undefined for a text value (never a unit of any input)
Null == <<"<null>">>
\* headers.get(...) === null
NoHeader == "<null>"

SCHOOL_NAME == "Grambling State University"
CANVAS_DOMAIN == "grambling.instructure.com"

Origin == "https://chat.example/cb"
OriginEnc == "https%3A%2F%2Fchat.example%2Fcb"

SeqsUpTo(S, n) == UNION {[1..k -> S] : k \in 0..n}

\* !v for a text value: null, undefined and the empty string are falsy
Falsy(v) == v = Null \/ v = <<>>

RECURSIVE ReplaceAll(_, _, _)
\* String.prototype.replace with a global single-character pattern
ReplaceAll(str, u, rep) ==
  IF str = <<>> THEN <<>>
  ELSE (IF Head(str) = u THEN rep ELSE <<Head(str)>>) \o ReplaceAll(Tail(str), u, rep)

RECURSIVE IndexOf(_, _, _)
\* first position >= i of unit u in str, 0 when there is none
IndexOf(str, u, i) ==
  IF i > Len(str) THEN 0
  ELSE IF str[i] = u THEN i
  ELSE IndexOf(str, u, i + 1)

----------------------------------------------------------------------------
(* HTML escaping (index.js) and the browser's entity decoding *)

escapeHtml_AmpLast(str) ==
  IF Falsy(str) THEN <<>>
  ELSE ReplaceAll(ReplaceAll(ReplaceAll(ReplaceAll(str,
         "\"", <<"&", "quot", ";">>),
         "<", <<"&", "lt", ";">>),
         ">", <<"&", "gt", ";">>),
         "&", <<"&", "amp", ";">>)

escapeHtml(str) ==
  IF Falsy(str) THEN <<>>
  ELSE ReplaceAll(ReplaceAll(ReplaceAll(ReplaceAll(str,
         "&", <<"&", "amp", ";">>),
         "\"", <<"&", "quot", ";">>),
         "<", <<"&", "lt", ";">>),
         ">", <<"&", "gt", ";">>)

EntityNames == {"amp", "quot", "lt", "gt"}

EntityChar(name) ==
  CASE name = "amp" -> "&"
    [] name = "quot" -> "\""
    [] name = "lt" -> "<"
    [] name = "gt" -> ">"

\* a character reference starts at the head of str
StartsEntity(str) ==
  /\ Len(str) >= 3
  /\ str[1] = "&"
  /\ str[2] \in EntityNames
  /\ str[3] = ";"

RECURSIVE HtmlDecode(_)
\* the HTML tokenizer's character-reference decoding of an attribute value
HtmlDecode(str) ==
  IF str = <<>> THEN <<>>
  ELSE IF StartsEntity(str)
       THEN <<EntityChar(str[2])>> \o HtmlDecode(SubSeq(str, 4, Len(str)))
       ELSE <<Head(str)>> \o HtmlDecode(Tail(str))

\* the value the tokenizer reads from  value="<emitted>"  : the emitted text
\* up to its first raw double quote, entity-decoded
AttributeValue(emitted) ==
  LET q == IndexOf(emitted, "\"", 1)
  IN HtmlDecode(IF q = 0 THEN emitted ELSE SubSeq(emitted, 1, q - 1))

----------------------------------------------------------------------------
(* Percent encoding and the application/x-www-form-urlencoded parser *)

HexDigits == {"0", "2", "3", "5", "6", "B", "C", "D", "E", "F"}

\* the punctuation of the model with its UTF-8 byte in hex
PctCode ==
  [u \in {" ", "\"", "#", "%", "&", "+", ";", "<", "=", ">", "?", "\\"} |->
     CASE u = " " -> <<"2", "0">>
       [] u = "\"" -> <<"2", "2">>
       [] u = "#" -> <<"2", "3">>
       [] u = "%" -> <<"2", "5">>
       [] u = "&" -> <<"2", "6">>
       [] u = "+" -> <<"2", "B">>
       [] u = ";" -> <<"3", "B">>
       [] u = "<" -> <<"3", "C">>
       [] u = "=" -> <<"3", "D">>
       [] u = ">" -> <<"3", "E">>
       [] u = "?" -> <<"3", "F">>
       [] u = "\\" -> <<"5", "C">>]

Reserved == DOMAIN PctCode

\* the character a %XX escape stands for
PctChar(h) ==
  IF \E u \in Reserved : PctCode[u] = h
  THEN CHOOSE u \in Reserved : PctCode[u] = h
  ELSE "<byte>"

encodeUnit(u) ==
  IF u \in Reserved THEN <<"%">> \o PctCode[u]
  ELSE IF u = Origin THEN <<OriginEnc>>
  ELSE <<u>>

RECURSIVE encodeURIComponent(_)
encodeURIComponent(str) ==
  IF str = <<>> THEN <<>>
  ELSE encodeUnit(Head(str)) \o encodeURIComponent(Tail(str))

RECURSIVE FormEncode(_)
\* the browser's urlencoded serializer: as encodeURIComponent, space as "+"
FormEncode(str) ==
  IF str = <<>> THEN <<>>
  ELSE (IF Head(str) = " " THEN <<"+">> ELSE encodeUnit(Head(str)))
       \o FormEncode(Tail(str))

RECURSIVE PctDecode(_)
\* urlencoded decoding of a name or value: "+" is a space, %XX is a byte
PctDecode(str) ==
  IF str = <<>> THEN <<>>
  ELSE IF Head(str) = "%" /\ Len(str) >= 3 /\ str[2] \in HexDigits /\ str[3] \in HexDigits
       THEN <<PctChar(<<str[2], str[3]>>)>> \o PctDecode(SubSeq(str, 4, Len(str)))
  ELSE IF Head(str) = "+" THEN <<" ">> \o PctDecode(Tail(str))
  ELSE IF Head(str) = OriginEnc THEN <<Origin>> \o PctDecode(Tail(str))
  ELSE <<Head(str)>> \o PctDecode(Tail(str))

RECURSIVE Split(_, _)
\* str.split(sep)
Split(str, sep) ==
  LET i == IndexOf(str, sep, 1)
  IN IF i = 0 THEN <<str>>
     ELSE <<SubSeq(str, 1, i - 1)>> \o Split(SubSeq(str, i + 1, Len(str)), sep)

\* one name=value piece of a urlencoded string, decoded
ParsePair(piece) ==
  LET i == IndexOf(piece, "=", 1)
  IN IF i = 0 THEN <<PctDecode(piece), <<>> >>
     ELSE <<PctDecode(SubSeq(piece, 1, i - 1)), PctDecode(SubSeq(piece, i + 1, Len(piece)))>>

\* the urlencoded parser: the sequence of <<name, value>> pairs of str
ParseUrlEncoded(str) ==
  LET pieces == SelectSeq(Split(str, "&"), LAMBDA p : p # <<>>)
  IN [i \in 1..Len(pieces) |-> ParsePair(pieces[i])]

\* URLSearchParams.get / FormData.get: the first value of that name, or null
Get(pairs, name) ==
  LET hits == SelectSeq(pairs, LAMBDA p : p[1] = name)
  IN IF hits = <<>> THEN Null ELSE hits[1][2]

\* a client's fields on the wire: name=value joined by "&", the values
\* already encoded; a field whose value is null is left out
RECURSIVE Serialize(_)
Serialize(fields) ==
  IF fields = <<>> THEN <<>>
  ELSE LET f == Head(fields)
           rest == Serialize(Tail(fields))
       IN IF f[2] = Null THEN rest
          ELSE <<f[1], "=">> \o f[2] \o (IF rest = <<>> THEN <<>> ELSE <<"&">> \o rest)

\* a field as a script (encodeURIComponent) or a browser form puts it on the wire
UriField(name, v) == <<name, IF v = Null THEN Null ELSE encodeURIComponent(v)>>

FormField(name, v) == <<name, IF v = Null THEN Null ELSE FormEncode(v)>>

----------------------------------------------------------------------------
(* JSON string literals *)

RECURSIVE JsonEscape(_)
\* JSON.stringify of a string, without the surrounding quotes
JsonEscape(str) ==
  IF str = <<>> THEN <<>>
  ELSE (IF Head(str) \in {"\"", "\\"} THEN <<"\\", Head(str)>> ELSE <<Head(str)>>)
       \o JsonEscape(Tail(str))

RECURSIVE JsonUnescape(_)
\* JSON.parse of the content of a string literal
JsonUnescape(str) ==
  IF str = <<>> THEN <<>>
  ELSE IF Head(str) = "\\" /\ Len(str) >= 2
       THEN <<str[2]>> \o JsonUnescape(SubSeq(str, 3, Len(str)))
       ELSE <<Head(str)>> \o JsonUnescape(Tail(str))

----------------------------------------------------------------------------
(* Requests and responses *)

FORM_TYPE == "application/x-www-form-urlencoded"
FORM_TYPE_CHARSET == "application/x-www-form-urlencoded; charset=UTF-8"
JSON_TYPE == "application/json"
MULTIPART_TYPE == "multipart/form-data; boundary=b"
TEXT_TYPE == "text/plain"
HTML_TYPE == "text/html"

\* String.prototype.includes on the Content-Type values of the model
Includes(ct, sub) ==
  \/ sub = FORM_TYPE /\ ct \in {FORM_TYPE, FORM_TYPE_CHARSET}
  \/ sub = JSON_TYPE /\ ct = JSON_TYPE
  \/ sub = "multipart/form-data" /\ ct = MULTIPART_TYPE

\* A request body as the bytes a client sent:
\*   format "form"       text  = the urlencoded string
\*   format "multipart"  parts = the <<name, value>> parts, values verbatim
\*   format "json"       a JSON object; code = the content of the string
\*                       literal of its member "code", Null without the member
\*   format "jsonNull"   the JSON text  null
\*   format "text"       text that is neither JSON nor a form
\*   format "empty"      no body
Body(format, text, parts, code) ==
  [format |-> format, text |-> text, parts |-> parts, code |-> code]

NoBody == Body("empty", <<>>, <<>>, Null)

FormBody(fields) == Body("form", Serialize(fields), <<>>, Null)

MultipartBody(parts) == Body("multipart", <<>>, parts, Null)

JsonBody(code) == Body("json", <<>>, <<>>, IF code = Null THEN Null ELSE JsonEscape(code))

JsonNullBody == Body("jsonNull", <<>>, <<>>, Null)

TextBody == Body("text", <<"x">>, <<>>, Null)

\* pathname is the sequence of the path's segments: "/" is <<>>,
\* "/api/v1/" is <<"api", "v1", "">>
Request(method, pathname, search, contentType, authorization, body) ==
  [method |-> method, pathname |-> pathname, search |-> search,
   contentType |-> contentType, authorization |-> authorization, body |-> body]

NoRequest == Request("<none>", <<>>, <<>>, NoHeader, NoHeader, NoBody)

corsHeaders ==
  [allowOrigin |-> "*", allowMethods |-> "GET, POST, OPTIONS", allowHeaders |-> "Content-Type"]

NoCors == [allowOrigin |-> NoHeader, allowMethods |-> NoHeader, allowHeaders |-> NoHeader]

Response(status, contentType, cors, location, body) ==
  [status |-> status, contentType |-> contentType, cors |-> cors,
   location |-> location, body |-> body]

NoResponse == Response(0, NoHeader, NoCors, Null, [kind |-> "<none>"])

\* what the runtime answers when fetch() rejects: the handler produced no response
Unhandled(error) == Response(500, NoHeader, NoCors, Null, [kind |-> "exception", error |-> error])

NoReply == [status |-> 0, contentType |-> NoHeader, body |-> <<>>]

\* sent: the values the sender of the request in hand put into it, before
\* any encoding: t the credential or code, r the redirect target, s the
\* state (Null: not sent)
Values(t, r, s) == [t |-> t, r |-> r, s |-> s]

NoValues == Values(Null, Null, Null)

\* flow: where an authorize -> callback -> token chain stands, with the
\* credential t the user types, the client's redirect target r and state s,
\* and the format the client exchanges the code in
NoFlow == [stage |-> "none", t |-> Null, r |-> Null, s |-> Null, via |-> "none"]

----------------------------------------------------------------------------
(* Platform body readers *)

\* request.formData(): the parsed fields, or a TypeError for a Content-Type
\* that is neither urlencoded nor multipart, or a multipart body that does
\* not parse.  Under a urlencoded Content-Type a body that is no form parses
\* to fields of other names.
formData(req) ==
  IF Includes(req.contentType, FORM_TYPE)
  THEN [threw |-> FALSE,
        pairs |-> IF req.body.format = "form" THEN ParseUrlEncoded(req.body.text) ELSE <<>>]
  ELSE IF Includes(req.contentType, "multipart/form-data") /\ req.body.format = "multipart"
  THEN [threw |-> FALSE, pairs |-> req.body.parts]
  ELSE [threw |-> TRUE, pairs |-> <<>>]

\* request.json() followed by  .code : a SyntaxError for a body that is not
\* JSON, a TypeError for the JSON value null, else the member (Null when the
\* object has none)
jsonCode(req) ==
  IF req.body.format = "json"
  THEN [threw |-> FALSE, error |-> "none",
        code |-> IF req.body.code = Null THEN Null ELSE JsonUnescape(req.body.code)]
  ELSE IF req.body.format = "jsonNull"
  THEN [threw |-> TRUE, error |-> "TypeError", code |-> Null]
  ELSE [threw |-> TRUE, error |-> "SyntaxError", code |-> Null]

----------------------------------------------------------------------------
(* Pages *)

getHomePage == [kind |-> "home"]

\* the login page: the template with the text emitted into the two
\* value="..." attributes of its hidden fields
getAuthPage(redirectUri, state) ==
  [kind |-> "authPage",
   redirect_uri |-> escapeHtml(redirectUri),
   state |-> escapeHtml(state)]

JsonResponse(status, json) ==
  Response(status, JSON_TYPE, corsHeaders, Null, [kind |-> "json", json |-> json])

----------------------------------------------------------------------------
(* Response.redirect *)

\* the URL parser accepts an absolute URL only
IsAbsoluteUrl(url) == url # <<>> /\ Head(url) = Origin

RECURSIVE UrlSerialize(_)
\* the URL serializer percent-encodes space, double quote, "<" and ">"
UrlSerialize(url) ==
  IF url = <<>> THEN <<>>
  ELSE (IF Head(url) \in {" ", "\"", "<", ">"} THEN <<"%">> \o PctCode[Head(url)]
        ELSE <<Head(url)>>) \o UrlSerialize(Tail(url))

redirect(url, status) ==
  IF IsAbsoluteUrl(url)
  THEN Response(status, NoHeader, NoCors, UrlSerialize(url), [kind |-> "null"])
  ELSE Unhandled("TypeError")

\* what a client reads from a Location: the pairs of its query, which runs
\* from the first "?" to the first "#"
LocationParams(location) ==
  LET h == IndexOf(location, "#", 1)
      noFragment == IF h = 0 THEN location ELSE SubSeq(location, 1, h - 1)
      q == IndexOf(noFragment, "?", 1)
  IN IF q = 0 THEN <<>>
     ELSE ParseUrlEncoded(SubSeq(noFragment, q + 1, Len(noFragment)))

----------------------------------------------------------------------------
(* The dispatcher: fetch(request), one operator per branch *)

\* the preflight test placed after the /api/v1/ branch
IsPreflight_AfterProxy(req) ==
  /\ req.method = "OPTIONS"
  /\ ~(Len(req.pathname) >= 3 /\ req.pathname[1] = "api" /\ req.pathname[2] = "v1")

IsPreflight(req) == req.method = "OPTIONS"

IsHomeRoute(req) == ~IsPreflight(req) /\ req.pathname = <<>>

IsAuthorizeRoute(req) == ~IsPreflight(req) /\ req.pathname = <<"authorize">>

IsCallbackRoute_AnyMethod(req) == ~IsPreflight(req) /\ req.pathname = <<"callback">>

IsCallbackRoute(req) ==
  ~IsPreflight(req) /\ req.pathname = <<"callback">> /\ req.method = "POST"

IsTokenRoute(req) ==
  ~IsPreflight(req) /\ req.pathname = <<"token">> /\ req.method = "POST"

\* url.pathname.startsWith("/api/v1/")
StartsWithApiV1(pathname) ==
  Len(pathname) >= 3 /\ pathname[1] = "api" /\ pathname[2] = "v1"

IsApiRoute(req) == ~IsPreflight(req) /\ StartsWithApiV1(req.pathname)

IsUnmatched(req) ==
  /\ ~IsPreflight(req)
  /\ ~IsHomeRoute(req)
  /\ ~IsAuthorizeRoute(req)
  /\ ~IsCallbackRoute(req)
  /\ ~IsTokenRoute(req)
  /\ ~IsApiRoute(req)

preflightResponse == Response(200, NoHeader, corsHeaders, Null, [kind |-> "null"])

homeResponse == Response(200, HTML_TYPE, corsHeaders, Null, getHomePage)

\* url.searchParams: the urlencoded pairs of url.search without its "?"
searchParams(search) ==
  ParseUrlEncoded(IF search # <<>> /\ Head(search) = "?" THEN Tail(search) ELSE search)

authorizeResponse(req) ==
  LET params == searchParams(req.search)
      redirectUri == Get(params, <<"redirect_uri">>)
      state == Get(params, <<"state">>)
  IN IF Falsy(redirectUri)
     THEN Response(400, TEXT_TYPE, NoCors, Null, [kind |-> "text", text |-> "Missing redirect_uri"])
     ELSE Response(200, HTML_TYPE, corsHeaders, Null, getAuthPage(redirectUri, state))

callbackResponse(req) ==
  LET form == formData(req)
      token == Get(form.pairs, <<"token">>)
      redirectUri == Get(form.pairs, <<"redirect_uri">>)
      state == Get(form.pairs, <<"state">>)
      redirectUrl == redirectUri \o <<"?", "code", "=">> \o encodeURIComponent(token)
                     \o <<"&", "state", "=">>
                     \o encodeURIComponent(IF Falsy(state) THEN <<>> ELSE state)
  IN IF form.threw THEN Unhandled("TypeError")
     ELSE IF Falsy(token) \/ Falsy(redirectUri)
     THEN Response(400, TEXT_TYPE, NoCors, Null,
                   [kind |-> "text", text |-> "Missing token or redirect_uri"])
     ELSE redirect(redirectUrl, 302)

tokenJson_Encoded(code) ==
  [access_token |-> JsonEscape(encodeURIComponent(code)),
   token_type |-> <<"Bearer">>, scope |-> <<"read write">>]

tokenJson(code) ==
  [access_token |-> JsonEscape(code), token_type |-> <<"Bearer">>, scope |-> <<"read write">>]

tokenResponse(req) ==
  LET contentType == IF req.contentType = NoHeader THEN "" ELSE req.contentType
      form == formData(req)
      json == jsonCode(req)
      viaForm == Get(form.pairs, <<"code">>)
      answer(code) ==
        IF Falsy(code)
        THEN JsonResponse(400, [error |-> <<"Missing code">>])
        ELSE JsonResponse(200, tokenJson(code))
  IN IF Includes(contentType, FORM_TYPE)
     THEN (IF form.threw THEN Unhandled("TypeError") ELSE answer(viaForm))
     ELSE IF Includes(contentType, JSON_TYPE)
     THEN (IF json.threw THEN Unhandled(json.error) ELSE answer(json.code))
     ELSE IF form.threw
     THEN JsonResponse(400, [error |-> <<"Invalid request format">>])
     ELSE answer(viaForm)

canvasRequest_NoSearch(req) ==
  [host |-> CANVAS_DOMAIN,
   pathname |-> req.pathname,
   search |-> <<>>,
   method |-> req.method,
   authorization |-> req.authorization,
   contentType |-> IF req.contentType \in {NoHeader, ""} THEN JSON_TYPE ELSE req.contentType,
   body |-> IF req.method # "GET" /\ req.method # "HEAD" THEN req.body ELSE NoBody]

\* the request the worker sends to Canvas
canvasRequest(req) ==
  [host |-> CANVAS_DOMAIN,
   pathname |-> req.pathname,
   search |-> req.search,
   method |-> req.method,
   authorization |-> req.authorization,
   contentType |-> IF req.contentType \in {NoHeader, ""} THEN JSON_TYPE ELSE req.contentType,
   body |-> IF req.method # "GET" /\ req.method # "HEAD" THEN req.body ELSE NoBody]

MissingAuth_EmptyOnly(req) == req.authorization = ""

\* !authHeader
MissingAuth(req) == req.authorization \in {NoHeader, ""}

unauthorizedResponse == JsonResponse(401, [error |-> <<"Missing Authorization header">>])

relayResponse(canvasResponse) ==
  Response(canvasResponse.status,
           IF canvasResponse.contentType \in {NoHeader, ""} THEN JSON_TYPE
           ELSE canvasResponse.contentType,
           corsHeaders, Null,
           [kind |-> "relay", text |-> canvasResponse.body])

notFoundResponse_NoCors ==
  Response(404, TEXT_TYPE, NoCors, Null, [kind |-> "text", text |-> "Not found"])

notFoundResponse ==
  Response(404, TEXT_TYPE, corsHeaders, Null, [kind |-> "text", text |-> "Not found"])

\* fetch(request) for a request handled alone, on the branches that do not
\* call Canvas
fetchAlone(req) ==
  IF IsPreflight(req) THEN preflightResponse
  ELSE IF IsHomeRoute(req) THEN homeResponse
  ELSE IF IsAuthorizeRoute(req) THEN authorizeResponse(req)
  ELSE IF IsCallbackRoute(req) THEN callbackResponse(req)
  ELSE IF IsTokenRoute(req) THEN tokenResponse(req)
  ELSE IF IsApiRoute(req) /\ MissingAuth(req) THEN unauthorizedResponse
  ELSE notFoundResponse

\* the branch forwards the request to Canvas
IsForwarded(req) == IsApiRoute(req) /\ ~MissingAuth(req)

\* the branch returns without an await
ReturnsAtOnce(req) ==
  ~IsCallbackRoute(req) /\ ~IsTokenRoute(req) /\ ~IsForwarded(req)

NoCall ==
  [host |-> NoHeader, pathname |-> <<>>, search |-> <<>>, method |-> "<none>",
   authorization |-> NoHeader, contentType |-> NoHeader, body |-> NoBody]

\* one invocation of fetch: where it stands (pc), its request, the call it
\* made to Canvas, Canvas's reply to that call and the response it returned.
\*   pc "idle"      no invocation
\*      "running"   fetch entered
\*      "reading"   at  await request.formData()  or  await request.json()
\*      "text"      at  await request.text()
\*      "fetching"  at  await fetch(canvasUrl, ...)
\*      "body"      at  await canvasResponse.text()
\*      "done"      returned or threw
Invocation(pc, req, out, reply, resp) ==
  [pc |-> pc, req |-> req, out |-> out, reply |-> reply, resp |-> resp]

NoInvocation == Invocation("idle", NoRequest, NoCall, NoReply, NoResponse)

Slots == 1 .. MaxInflight

----------------------------------------------------------------------------
(* The second copy of the worker (src/unnamed/part_000): the same dispatcher *)
(* without the /api/v1/ branch and without escapeHtml                        *)

\* ${redirectUri || ""} and ${state || ""} inside value="..."
getAuthPage_part000(redirectUri, state) ==
  [kind |-> "authPage",
   redirect_uri |-> IF Falsy(redirectUri) THEN <<>> ELSE redirectUri,
   state |-> IF Falsy(state) THEN <<>> ELSE state]

authorizeResponse_part000(req) ==
  LET params == searchParams(req.search)
      redirectUri == Get(params, <<"redirect_uri">>)
      state == Get(params, <<"state">>)
  IN IF Falsy(redirectUri)
     THEN Response(400, TEXT_TYPE, NoCors, Null, [kind |-> "text", text |-> "Missing redirect_uri"])
     ELSE Response(200, HTML_TYPE, corsHeaders, Null, getAuthPage_part000(redirectUri, state))

IsUnmatched_part000(req) ==
  /\ ~IsPreflight(req)
  /\ ~IsHomeRoute(req)
  /\ ~IsAuthorizeRoute(req)
  /\ ~IsCallbackRoute(req)
  /\ ~IsTokenRoute(req)

----------------------------------------------------------------------------
(* The requests the environment sends *)

HtmlChars == {"&", "\"", "<", "amp", ";"}
TokenChars == {"&", "%", "2", "6", "+"}
CodeChars == {"x", "\"", "\\", "&", "+", " "}
FlowChars == {"&", "%", "+", "\""}

HtmlTexts == SeqsUpTo(HtmlChars, MaxLen)
Tokens == SeqsUpTo(TokenChars, MaxLen)
Codes == SeqsUpTo(CodeChars, MaxLen)
FlowTokens == SeqsUpTo(FlowChars, MaxFlowLen)

\* redirect targets: plain, with a query, with a fragment, with a character
\* the URL serializer escapes, and two that are no absolute URL
Redirects ==
  {<<Origin>>, <<Origin, "x">>, <<Origin, "?", "x", "=", "x">>, <<Origin, "#", "x">>,
   <<Origin, "\"">>, <<"x">>, <<"x", "?", "x">>}

States == {<<>>, <<"x">>, <<"x", "&", "x">>, <<"\"", ">">>}

Opt(S) == S \cup {Null}

FlowStates == {Null, <<"\"", ">">>}

Methods == {"GET", "POST", "PUT", "HEAD", "OPTIONS"}

ContentTypes == {NoHeader, FORM_TYPE, FORM_TYPE_CHARSET, JSON_TYPE, MULTIPART_TYPE, TEXT_TYPE}

\* url.search: empty, or "?" and the query
Search(query) == IF query = <<>> THEN <<>> ELSE <<"?">> \o query

AuthorizeSearch(r, s) == Search(Serialize(<<UriField("redirect_uri", r), UriField("state", s)>>))

AuthorizeRequest(method, r, s) ==
  Request(method, <<"authorize">>, AuthorizeSearch(r, s), NoHeader, NoHeader, NoBody)

\* a request together with the values its sender put into it
Sent(req, t, r, s) == [req |-> req, values |-> Values(t, r, s)]

AuthorizeRequests ==
  {Sent(AuthorizeRequest("GET", r, s), Null, r, s) : r \in Opt(HtmlTexts), s \in Opt(States)}
  \cup {Sent(AuthorizeRequest("GET", r, s), Null, r, s) : r \in Redirects, s \in HtmlTexts}
  \cup {Sent(AuthorizeRequest(m, r, s), Null, r, s) :
          m \in Methods, r \in Opt(Redirects), s \in {Null, <<"x">>}}

CallbackFields(t, r, s) ==
  <<FormField("token", t), FormField("redirect_uri", r), FormField("state", s)>>

CallbackRequest(method, contentType, body) ==
  Request(method, <<"callback">>, <<>>, contentType, NoHeader, body)

CallbackRequests ==
  {Sent(CallbackRequest("POST", FORM_TYPE, FormBody(CallbackFields(t, r, s))), t, r, s) :
     t \in Opt(Tokens), r \in Opt(Redirects), s \in {Null, <<"x", "&", "x">>}}
  \cup {Sent(CallbackRequest("POST", FORM_TYPE, FormBody(CallbackFields(t, r, s))), t, r, s) :
          t \in {<<>>, <<"&">>, <<"%", "2", "6">>}, r \in Opt(Redirects), s \in Opt(States)}
  \cup {Sent(CallbackRequest(m, ct, FormBody(CallbackFields(<<"x">>, <<Origin>>, <<"x">>))),
             <<"x">>, <<Origin>>, <<"x">>) : m \in Methods, ct \in ContentTypes}
  \cup {Sent(CallbackRequest(m, ct,
               MultipartBody(<<<<<<"token">>, <<"x", "+">>>>, <<<<"redirect_uri">>, <<Origin>>>>>>)),
             <<"x", "+">>, <<Origin>>, Null) : m \in Methods, ct \in ContentTypes}
  \cup {Sent(CallbackRequest(m, ct, b), Null, Null, Null) :
          m \in Methods, ct \in ContentTypes, b \in {NoBody, TextBody}}

TokenRequest(method, contentType, body) ==
  Request(method, <<"token">>, <<>>, contentType, NoHeader, body)

TokenRequests ==
  {Sent(TokenRequest("POST", ct, FormBody(<<FormField("code", c)>>)), c, Null, Null) :
     ct \in {FORM_TYPE, FORM_TYPE_CHARSET}, c \in Opt(Codes)}
  \cup {Sent(TokenRequest("POST", JSON_TYPE, JsonBody(c)), c, Null, Null) : c \in Opt(Codes)}
  \cup {Sent(TokenRequest("POST", MULTIPART_TYPE, MultipartBody(<<<<<<"code">>, c>>>>)),
             c, Null, Null) : c \in Codes}
  \cup {Sent(TokenRequest(m, ct, b), <<"x">>, Null, Null) :
          m \in Methods, ct \in ContentTypes,
          b \in {JsonBody(<<"x">>), FormBody(<<FormField("code", <<"x">>)>>)}}
  \cup {Sent(TokenRequest(m, ct, b), Null, Null, Null) :
          m \in Methods, ct \in ContentTypes,
          b \in {NoBody, TextBody, JsonNullBody}}

ApiPaths == {<<"api", "v1", "courses">>, <<"api", "v1", "">>, <<"api", "v1", "courses", "x">>}

Authorizations == {NoHeader, "", "Bearer x"}

ApiRequests ==
  {Sent(Request(m, p, q, ct, a, IF m \in {"GET", "HEAD", "OPTIONS"} THEN NoBody ELSE b),
        Null, Null, Null) :
     m \in Methods, p \in ApiPaths, q \in {<<>>, <<"?", "page", "=", "2">>},
     ct \in {NoHeader, JSON_TYPE, FORM_TYPE}, a \in Authorizations,
     b \in {NoBody, JsonBody(<<"x">>)}}

OtherPaths == {<<>>, <<"api", "v1">>, <<"api", "v2", "courses">>, <<"authorize", "">>, <<"favicon.ico">>}

OtherRequests ==
  {Sent(Request(m, p, q, NoHeader, a, NoBody), Null, Null, Null) :
     m \in Methods, p \in OtherPaths, q \in {<<>>, <<"?", "x", "=", "x">>},
     a \in Authorizations}

\* what Canvas may answer
CanvasReplies ==
  [status : {200, 404, 500}, contentType : {NoHeader, JSON_TYPE, HTML_TYPE},
   body : {<<>>, <<"x">>, <<"\"", "&">>}]

----------------------------------------------------------------------------
(* Actions *)

Arrived == request # NoRequest /\ response = NoResponse

Answered == response # NoResponse

Idle == request = NoRequest

\* a request that belongs to no flow reaches the worker
Receive(msg) ==
  /\ request' = msg.req
  /\ response' = NoResponse
  /\ outbound' = <<>>
  /\ upstream' = NoReply
  /\ sent' = msg.values
  /\ flow' = NoFlow
  /\ UNCHANGED inflight

ReceiveAuthorize == Idle /\ \E msg \in AuthorizeRequests : Receive(msg)

ReceiveCallback == Idle /\ \E msg \in CallbackRequests : Receive(msg)

ReceiveToken == Idle /\ \E msg \in TokenRequests : Receive(msg)

ReceiveApi == Idle /\ \E msg \in ApiRequests : Receive(msg)

ReceiveOther == Idle /\ \E msg \in OtherRequests : Receive(msg)

\* the handler returns resp without calling Canvas
Respond(resp) ==
  /\ response' = resp
  /\ UNCHANGED <<request, outbound, upstream, sent, flow, inflight>>

Preflight == Arrived /\ IsPreflight(request) /\ Respond(preflightResponse)

Home == Arrived /\ IsHomeRoute(request) /\ Respond(homeResponse)

Authorize == Arrived /\ IsAuthorizeRoute(request) /\ Respond(authorizeResponse(request))

Callback == Arrived /\ IsCallbackRoute(request) /\ Respond(callbackResponse(request))

Token == Arrived /\ IsTokenRoute(request) /\ Respond(tokenResponse(request))

ProxyUnauthorized ==
  /\ Arrived
  /\ IsApiRoute(request)
  /\ MissingAuth(request)
  /\ Respond(unauthorizedResponse)

Proxy ==
  /\ Arrived
  /\ IsApiRoute(request)
  /\ ~MissingAuth(request)
  /\ \E canvasResponse \in CanvasReplies :
       /\ outbound' = Append(outbound, canvasRequest(request))
       /\ upstream' = canvasResponse
       /\ response' = relayResponse(canvasResponse)
  /\ UNCHANGED <<request, sent, flow, inflight>>

NotFound == Arrived /\ IsUnmatched(request) /\ Respond(notFoundResponse)

(* The OAuth client and the user, chaining the three requests *)

\* the client sends the user to /authorize
StartFlow ==
  /\ Idle
  /\ \E t \in FlowTokens, r \in Redirects, s \in FlowStates, via \in {"form", "json"} :
       /\ request' = AuthorizeRequest("GET", r, s)
       /\ sent' = Values(Null, r, s)
       /\ flow' = [stage |-> "authorize", t |-> t, r |-> r, s |-> s, via |-> via]
  /\ response' = NoResponse
  /\ outbound' = <<>>
  /\ upstream' = NoReply
  /\ UNCHANGED inflight

\* the user types the credential into the rendered form and submits it
SubmitForm ==
  /\ flow.stage = "authorize"
  /\ response.status = 200
  /\ response.body.kind = "authPage"
  /\ LET r == AttributeValue(response.body.redirect_uri)
         s == AttributeValue(response.body.state)
     IN /\ request' = CallbackRequest("POST", FORM_TYPE,
                        FormBody(<<FormField("redirect_uri", r), FormField("state", s),
                                   FormField("token", flow.t)>>))
        /\ sent' = Values(flow.t, r, s)
  /\ flow' = [flow EXCEPT !.stage = "callback"]
  /\ response' = NoResponse
  /\ UNCHANGED <<outbound, upstream, inflight>>

\* the client reads code from the redirect and exchanges it
ExchangeCode ==
  /\ flow.stage = "callback"
  /\ response.status = 302
  /\ LET code == Get(LocationParams(response.location), <<"code">>)
     IN /\ request' = IF flow.via = "form"
                      THEN TokenRequest("POST", FORM_TYPE, FormBody(<<UriField("code", code)>>))
                      ELSE TokenRequest("POST", JSON_TYPE, JsonBody(code))
        /\ sent' = Values(code, Null, Null)
  /\ flow' = [flow EXCEPT !.stage = "token"]
  /\ response' = NoResponse
  /\ UNCHANGED <<outbound, upstream, inflight>>

\* the response is delivered and the invocation ends: nothing of it is kept
Deliver ==
  /\ Answered
  /\ request' = NoRequest
  /\ response' = NoResponse
  /\ outbound' = <<>>
  /\ upstream' = NoReply
  /\ sent' = NoValues
  /\ flow' = NoFlow
  /\ UNCHANGED inflight

Init ==
  /\ request = NoRequest
  /\ response = NoResponse
  /\ outbound = <<>>
  /\ upstream = NoReply
  /\ sent = NoValues
  /\ flow = NoFlow
  /\ inflight = [i \in Slots |-> NoInvocation]

Next ==
  \/ ReceiveAuthorize
  \/ ReceiveCallback
  \/ ReceiveToken
  \/ ReceiveApi
  \/ ReceiveOther
  \/ Preflight
  \/ Home
  \/ Authorize
  \/ Callback
  \/ Token
  \/ ProxyUnauthorized
  \/ Proxy
  \/ NotFound
  \/ StartFlow
  \/ SubmitForm
  \/ ExchangeCode
  \/ Deliver

Spec == Init /\ [][Next]_vars

(* The second copy of the worker, under the same environment *)

Authorize_part000 ==
  Arrived /\ IsAuthorizeRoute(request) /\ Respond(authorizeResponse_part000(request))

NotFound_part000 == Arrived /\ IsUnmatched_part000(request) /\ Respond(notFoundResponse)

Next_part000 ==
  \/ ReceiveAuthorize
  \/ ReceiveCallback
  \/ ReceiveToken
  \/ ReceiveApi
  \/ ReceiveOther
  \/ Preflight
  \/ Home
  \/ Authorize_part000
  \/ Callback
  \/ Token
  \/ NotFound_part000
  \/ StartFlow
  \/ SubmitForm
  \/ ExchangeCode
  \/ Deliver

Spec_part000 == Init /\ [][Next_part000]_vars

----------------------------------------------------------------------------
(* Concurrent invocations: the runtime enters fetch for a new request while *)
(* earlier invocations are suspended at an await                            *)

\* requests with pairwise different values
ConcurrentRequests ==
  {AuthorizeRequest("GET", <<Origin>>, <<"x">>),
   AuthorizeRequest("POST", <<Origin, "x">>, Null),
   CallbackRequest("POST", FORM_TYPE, FormBody(CallbackFields(<<"2">>, <<Origin>>, <<"x">>))),
   CallbackRequest("POST", FORM_TYPE, FormBody(CallbackFields(<<"6">>, <<Origin, "x">>, Null))),
   CallbackRequest("POST", TEXT_TYPE, TextBody),
   TokenRequest("POST", FORM_TYPE, FormBody(<<FormField("code", <<"x">>)>>)),
   TokenRequest("POST", JSON_TYPE, JsonBody(<<"+">>)),
   TokenRequest("POST", JSON_TYPE, JsonNullBody),
   TokenRequest("OPTIONS", JSON_TYPE, JsonBody(<<"x">>)),
   Request("GET", <<"api", "v1", "courses">>, <<"?", "page", "=", "2">>, NoHeader, "Bearer x", NoBody),
   Request("PUT", <<"api", "v1", "courses", "x">>, <<>>, JSON_TYPE, "Bearer y", JsonBody(<<"x">>)),
   Request("GET", <<"api", "v1", "courses">>, <<>>, NoHeader, NoHeader, NoBody),
   Request("GET", <<>>, <<>>, NoHeader, NoHeader, NoBody),
   Request("GET", <<"favicon.ico">>, <<>>, NoHeader, "Bearer x", NoBody)}

\* Canvas answers the call it received: a reply that names the caller, or
\* an error without a body
CanvasAnswersTo(call) ==
  {[status |-> 200, contentType |-> JSON_TYPE, body |-> <<call.authorization>>],
   [status |-> 500, contentType |-> NoHeader, body |-> <<>>]}

\* the bindings of an invocation (request, url, formData, code, authHeader,
\* canvasResponse) shared by whatever invocations are under way
Binding_Shared(i) ==
  LET under == {i} \cup {j \in Slots : inflight[j].pc # "idle"}
  IN inflight[CHOOSE j \in under : \A k \in under : j >= k]

\* the bindings of an invocation: request, url, formData, code, authHeader,
\* canvasResponse are parameters and const/let locals of fetch
Binding(i) == inflight[i]

Resume(i, next) ==
  /\ inflight' = [inflight EXCEPT ![i] = next]
  /\ UNCHANGED <<request, response, outbound, upstream, sent, flow>>

\* the runtime calls fetch(request)
Invoke ==
  \E i \in Slots :
    /\ inflight[i].pc = "idle"
    /\ \E req \in ConcurrentRequests :
         Resume(i, Invocation("running", req, NoCall, NoReply, NoResponse))

\* a branch without an await: preflight, home, authorize, 401, 404
AnswerAtOnce ==
  \E i \in Slots :
    /\ inflight[i].pc = "running"
    /\ ReturnsAtOnce(Binding(i).req)
    /\ Resume(i,
         [inflight[i] EXCEPT
            !.pc = "done",
            !.resp = IF IsPreflight(Binding(i).req) THEN preflightResponse
                     ELSE IF IsHomeRoute(Binding(i).req) THEN homeResponse
                     ELSE IF IsAuthorizeRoute(Binding(i).req)
                     THEN authorizeResponse(Binding(i).req)
                     ELSE IF IsApiRoute(Binding(i).req) THEN unauthorizedResponse
                     ELSE notFoundResponse])

\* /callback and /token suspend at the read of the body
AwaitBody ==
  \E i \in Slots :
    /\ inflight[i].pc = "running"
    /\ IsCallbackRoute(Binding(i).req) \/ IsTokenRoute(Binding(i).req)
    /\ Resume(i, [inflight[i] EXCEPT !.pc = "reading"])

\* the body is read and the branch runs to its return or throws
AnswerParsed ==
  \E i \in Slots :
    /\ inflight[i].pc = "reading"
    /\ Resume(i,
         [inflight[i] EXCEPT
            !.pc = "done",
            !.resp = IF IsCallbackRoute(Binding(i).req)
                     THEN callbackResponse(Binding(i).req)
                     ELSE tokenResponse(Binding(i).req)])

\* the proxy branch reads the body of a request that is neither GET nor HEAD
AwaitText ==
  \E i \in Slots :
    /\ inflight[i].pc = "running"
    /\ IsForwarded(Binding(i).req)
    /\ Binding(i).req.method \notin {"GET", "HEAD"}
    /\ Resume(i, [inflight[i] EXCEPT !.pc = "text"])

\* the proxy branch calls Canvas
CallCanvas ==
  \E i \in Slots :
    /\ \/ /\ inflight[i].pc = "running"
          /\ IsForwarded(Binding(i).req)
          /\ Binding(i).req.method \in {"GET", "HEAD"}
       \/ inflight[i].pc = "text"
    /\ Resume(i, [inflight[i] EXCEPT !.pc = "fetching", !.out = canvasRequest(Binding(i).req)])

\* Canvas answers the call of invocation i
CanvasAnswers ==
  \E i \in Slots :
    /\ inflight[i].pc = "fetching"
    /\ \E canvasResponse \in CanvasAnswersTo(inflight[i].out) :
         Resume(i, [inflight[i] EXCEPT !.pc = "body", !.reply = canvasResponse])

\* the proxy branch relays the reply
RelayAnswer ==
  \E i \in Slots :
    /\ inflight[i].pc = "body"
    /\ Resume(i, [inflight[i] EXCEPT !.pc = "done", !.resp = relayResponse(Binding(i).reply)])

\* the response is delivered and the invocation ends: nothing of it is kept
Finish ==
  \E i \in Slots :
    /\ inflight[i].pc = "done"
    /\ Resume(i, NoInvocation)

Next_concurrent ==
  \/ Invoke
  \/ AnswerAtOnce
  \/ AwaitBody
  \/ AnswerParsed
  \/ AwaitText
  \/ CallCanvas
  \/ CanvasAnswers
  \/ RelayAnswer
  \/ Finish

Spec_concurrent == Init /\ [][Next_concurrent]_vars

----------------------------------------------------------------------------
(* The claims *)

\* the handler returned a response (fetch did not reject)
Handled == Answered /\ response.body.kind # "exception"

IsTokenJson(resp) ==
  /\ resp.body.kind = "json"
  /\ DOMAIN resp.body.json = {"access_token", "token_type", "scope"}

\* the query parameter of that name in a redirect's Location, decoded
LocationParam(resp, name) == Get(LocationParams(resp.location), <<name>>)

\* an absolute URL without a fragment: what OAuth admits as a redirect target
IsRedirectTarget(url) == IsAbsoluteUrl(url) /\ IndexOf(url, "#", 1) = 0

\* C1: at the end of an authorize -> callback -> token chain towards the
\* redirect target r in which the user typed t, the final response is a
\* 200 whose access_token is t.
C1_EndToEndCredential ==
  (flow.stage = "token" /\ Answered /\ IsRedirectTarget(flow.r)) =>
    /\ response.status = 200
    /\ IsTokenJson(response)
    /\ JsonUnescape(response.body.json.access_token) = flow.t

\* the request declares the format its body is in
DeclaresItsFormat(req) ==
  \/ req.body.format = "form" /\ Includes(req.contentType, FORM_TYPE)
  \/ req.body.format = "json" /\ Includes(req.contentType, JSON_TYPE)

\* C2: a POST /token that carries a non-empty code t, form-encoded or as
\* JSON, is answered 200 with exactly access_token = t, token_type =
\* "Bearer" and scope = "read write".
C2_TokenExchange ==
  (/\ Answered
   /\ IsTokenRoute(request)
   /\ DeclaresItsFormat(request)
   /\ ~Falsy(sent.t)) =>
    /\ response.status = 200
    /\ response.contentType = JSON_TYPE
    /\ IsTokenJson(response)
    /\ JsonUnescape(response.body.json.access_token) = sent.t
    /\ JsonUnescape(response.body.json.token_type) = <<"Bearer">>
    /\ JsonUnescape(response.body.json.scope) = <<"read write">>

C2_Witness ==
  /\ Answered
  /\ IsTokenRoute(request)
  /\ request.body.format = "json"
  /\ sent.t = <<"\"", "\\", "&">>
  /\ response.status = 200

\* C3: a POST /callback with token t, redirect target r and state s is
\* answered with a 302 whose Location has the query parameters code = t
\* and state = s (empty when no state was submitted).
C3_CallbackRedirect ==
  (/\ Answered
   /\ IsCallbackRoute(request)
   /\ DeclaresItsFormat(request)
   /\ ~Falsy(sent.t)
   /\ IsRedirectTarget(sent.r)) =>
    /\ response.status = 302
    /\ LocationParam(response, "code") = sent.t
    /\ LocationParam(response, "state") = (IF sent.s = Null THEN <<>> ELSE sent.s)

\* C4: the hidden fields of a rendered login page, read back by the
\* browser, are the redirect_uri and the state that were passed to
\* /authorize (an empty state when none was passed).
C4_HiddenFieldsRoundTrip ==
  (/\ Answered
   /\ IsAuthorizeRoute(request)
   /\ response.status = 200) =>
    /\ response.body.kind = "authPage"
    /\ AttributeValue(response.body.redirect_uri) = sent.r
    /\ HtmlDecode(response.body.redirect_uri) = sent.r
    /\ AttributeValue(response.body.state) = (IF sent.s = Null THEN <<>> ELSE sent.s)
    /\ HtmlDecode(response.body.state) = (IF sent.s = Null THEN <<>> ELSE sent.s)

C4_Witness ==
  /\ Answered
  /\ IsAuthorizeRoute(request)
  /\ response.status = 200
  /\ sent.r = <<"&", "amp", ";">>
  /\ response.body.redirect_uri = <<"&", "amp", ";", "amp", ";">>

\* text that cannot leave a double-quoted attribute value or add markup:
\* no raw double quote, "<" or ">", and every "&" starts a character reference
EscapedAttribute(text) ==
  \A i \in 1..Len(text) :
    /\ text[i] \notin {"\"", "<", ">"}
    /\ text[i] = "&" => StartsEntity(SubSeq(text, i, Len(text)))

\* C5: in every rendered login page the text emitted into the two hidden
\* value attributes holds no raw double quote, "<", ">" or unescaped "&".
C5_AttributesEscaped ==
  (Answered /\ response.body.kind = "authPage") =>
    /\ EscapedAttribute(response.body.redirect_uri)
    /\ EscapedAttribute(response.body.state)

\* C6: no request makes the worker send a request to the Canvas host.
C6_NoOutboundRequest == outbound = <<>>

\* the request lacks an input its route requires
MissingInput(req) ==
  \/ IsAuthorizeRoute(req) /\ Falsy(sent.r)
  \/ IsCallbackRoute(req) /\ (Falsy(sent.t) \/ Falsy(sent.r))
  \/ IsTokenRoute(req) /\ Falsy(sent.t)

\* C7: a request to /authorize, POST /callback or POST /token that lacks a
\* required input is answered 400 (on /token with the JSON error "Missing
\* code") and one that supplies them is never answered 400.
C7_MissingInputIs400 ==
  (/\ Answered
   /\ (IsAuthorizeRoute(request) \/ IsCallbackRoute(request) \/ IsTokenRoute(request))) =>
    /\ MissingInput(request) =>
         /\ response.status = 400
         /\ response.location = Null
         /\ outbound = <<>>
         /\ IsTokenRoute(request) =>
              /\ response.body.kind = "json"
              /\ response.body.json = [error |-> <<"Missing code">>]
    /\ ~MissingInput(request) => response.status # 400

IsJsonError(resp) ==
  /\ resp.contentType = JSON_TYPE
  /\ resp.body.kind = "json"
  /\ DOMAIN resp.body.json = {"error"}

\* C8 as stated: every request of any method under /api/v1/ without an
\* Authorization header is answered 401 with a JSON error and nothing is
\* sent upstream.
C8_AnyMethodUnauthorized ==
  (/\ Answered
   /\ StartsWithApiV1(request.pathname)
   /\ request.authorization = NoHeader) =>
    /\ response.status = 401
    /\ IsJsonError(response)
    /\ outbound = <<>>

\* C8 amended: every request of any method but OPTIONS under /api/v1/
\* without an Authorization header is answered 401 with a JSON error and
\* nothing is sent upstream.
C8_Unauthorized ==
  (/\ Answered
   /\ StartsWithApiV1(request.pathname)
   /\ request.method # "OPTIONS"
   /\ request.authorization = NoHeader) =>
    /\ response.status = 401
    /\ IsJsonError(response)
    /\ outbound = <<>>

C8_Witness ==
  /\ Answered
  /\ StartsWithApiV1(request.pathname)
  /\ request.method = "PUT"
  /\ request.authorization = NoHeader
  /\ response.status = 401

\* the one upstream request repeats the caller's request
ForwardedUnchanged ==
  /\ Len(outbound) = 1
  /\ outbound[1].host = CANVAS_DOMAIN
  /\ outbound[1].method = request.method
  /\ outbound[1].pathname = request.pathname
  /\ outbound[1].search = request.search
  /\ outbound[1].body = request.body
  /\ outbound[1].authorization = request.authorization

IsPlainText(resp, status) == resp.status = status /\ resp.body.kind = "text"

\* C10 as stated: every response of the dispatcher carries the three
\* cross-origin headers, except the plain-text 400 and 404 responses.
C10_CorsExcept400And404 ==
  Handled =>
    \/ response.cors = corsHeaders
    \/ IsPlainText(response, 400)
    \/ IsPlainText(response, 404)

\* C10 amended: every response of the dispatcher carries the three
\* cross-origin headers, the plain-text 404 included, except the plain-text
\* 400 responses and the 302 redirect of /callback, which carry none.
C10_CorsExcept400AndRedirect ==
  Handled =>
    (response.cors = corsHeaders <=>
       ~(IsPlainText(response, 400) \/ response.status = 302))

C10_Witness ==
  /\ Handled
  /\ response.status = 404
  /\ response.cors = corsHeaders

\* a row of the interface table: GET /, GET /authorize, POST /callback,
\* POST /token, any method under /api/v1/, OPTIONS on any path
InInterfaceTable(req) ==
  \/ req.method = "GET" /\ req.pathname \in {<<>>, <<"authorize">>}
  \/ req.method = "POST" /\ req.pathname \in {<<"callback">>, <<"token">>}
  \/ StartsWithApiV1(req.pathname)
  \/ req.method = "OPTIONS"

IsNotFound(resp) ==
  /\ resp.status = 404
  /\ resp.body = [kind |-> "text", text |-> "Not found"]

\* C11 as stated: every request whose method and path are no row of the
\* interface table is answered 404, a non-GET request to / or /authorize
\* included.
C11_OutsideTableIs404 ==
  (Answered /\ ~InInterfaceTable(request)) => IsNotFound(response)

\* the paths / and /authorize are served for every method but OPTIONS
ServedOnAnyMethod(req) == req.pathname \in {<<>>, <<"authorize">>}

\* C11 amended: every request that is no row of the interface table and
\* whose path is neither / nor /authorize is answered 404 and nothing is
\* sent upstream; a non-POST request to /callback or /token is among them.
C11_UnmatchedIs404 ==
  (Answered /\ ~InInterfaceTable(request) /\ ~ServedOnAnyMethod(request)) =>
    /\ IsNotFound(response)
    /\ outbound = <<>>

C11_Witness ==
  /\ Answered
  /\ request.pathname = <<"callback">>
  /\ request.method = "GET"
  /\ request.body.format = "form"
  /\ IsNotFound(response)

\* C12: every POST /token request ends with a handled response, a 200 with
\* the token JSON or a 400 with a JSON error; a body that does not parse,
\* under any Content-Type, is answered 400 and never by an exception.
C12_TokenAlwaysHandled ==
  (/\ Answered
   /\ request.method = "POST"
   /\ request.pathname = <<"token">>) =>
    /\ Handled
    /\ \/ response.status = 200 /\ IsTokenJson(response)
       \/ response.status = 400 /\ IsJsonError(response)

\* C13: an OPTIONS request on any path is answered by an empty 200 with
\* the cross-origin headers: whatever its path, headers and body, the
\* response is never a 400, 401, 404 or an exception, and nothing is sent
\* upstream.
C13_PreflightShortCircuits ==
  (Answered /\ request.method = "OPTIONS") =>
    /\ Handled
    /\ response.status = 200
    /\ response.body = [kind |-> "null"]
    /\ response.cors = corsHeaders
    /\ response.contentType = NoHeader
    /\ response.location = Null
    /\ outbound = <<>>
    /\ upstream = NoReply

\* OPTIONS under /api/v1/ with an Authorization header: any other method
\* would be forwarded
C13_Witness ==
  /\ Answered
  /\ request.method = "OPTIONS"
  /\ StartsWithApiV1(request.pathname)
  /\ request.authorization = "Bearer x"
  /\ response.status = 200
  /\ outbound = <<>>

\* OPTIONS /token with a body whose read would throw under POST
C13_UnreadBody ==
  /\ Answered
  /\ request.method = "OPTIONS"
  /\ request.pathname = <<"token">>
  /\ request.contentType = JSON_TYPE
  /\ request.body.format = "jsonNull"
  /\ response.status = 200

\* C14: under any interleaving of invocations and after any earlier ones,
\* an invocation on a branch that does not call Canvas returns the response
\* the request gets when handled alone and calls nothing; an invocation
\* that calls Canvas sends its own request's method, path, query,
\* Authorization, Content-Type and body, and relays the reply to its own
\* call; an invocation that ended leaves nothing behind.
C14_RequestsIndependent ==
  \A i \in Slots :
    LET inv == inflight[i]
    IN /\ inv.pc = "idle" => inv = NoInvocation
       /\ (inv.pc = "done" /\ ~IsForwarded(inv.req)) =>
            /\ inv.resp = fetchAlone(inv.req)
            /\ inv.out = NoCall
       /\ inv.out # NoCall =>
            /\ IsForwarded(inv.req)
            /\ inv.out = canvasRequest(inv.req)
       /\ inv.reply # NoReply => inv.reply \in CanvasAnswersTo(canvasRequest(inv.req))
       /\ (inv.pc = "done" /\ IsForwarded(inv.req)) =>
            /\ inv.resp = relayResponse(inv.reply)
            /\ inv.resp.body.text \in {<<>>, <<inv.req.authorization>>}

\* an invocation that entered later has answered a form submission while
\* an earlier one with other values is still suspended at its body read
C14_Witness ==
  \E i, j \in Slots :
    /\ i # j
    /\ inflight[i].pc = "done"
    /\ IsCallbackRoute(inflight[i].req)
    /\ inflight[i].resp.status = 302
    /\ inflight[j].pc = "reading"
    /\ IsCallbackRoute(inflight[j].req)
    /\ inflight[j].req # inflight[i].req

\* two forwarded invocations under way with different Authorization headers
C14_TwoCalls ==
  \E i, j \in Slots :
    /\ inflight[i].pc = "done"
    /\ inflight[i].resp.status = 200
    /\ inflight[i].out.authorization = "Bearer x"
    /\ inflight[j].pc = "body"
    /\ inflight[j].out.authorization = "Bearer y"


====
